---- MODULE Spec2Model ----
(***************************************************************************)
(* Byte Pair Encoding tokenizer of src/byte_pair_encoding.py               *)
(* (class BPETokenizer, lines 7-48).                                       *)
(*                                                                         *)
(* A tokenizer object holds vocab_size, merges (a dict keyed by pair, in   *)
(* insertion order) and vocab (a dict from id to bytes).  train(text) is   *)
(* followed iteration by iteration: TrainCall is the prologue (lines       *)
(* 30-32), TrainIter one pass through the loop body (lines 35-43),         *)
(* TrainBreak the early exit (lines 36-37) and TrainReturn the exit of an  *)
(* exhausted range (lines 34, 48).  The pure helpers _get_stats and _merge *)
(* are operators; MergeSpec applies _merge, and StatsSpec _get_stats, to   *)
(* inputs drawn from bounded sets.                                         *)
(***************************************************************************)
EXTENDS Integers, Sequences, FiniteSets

VARIABLES
    vocab_size,  \* self.vocab_size
    merges,      \* self.merges: sequence of [pair, idx] in dict insertion order
    vocab,       \* self.vocab: function from id to a sequence of bytes
    pc,          \* "init" after __init__, "loop" inside train, "done" after return
    text,        \* the text argument of the current / last train call
    ids,         \* local ids of train
    i,           \* loop variable of train
    ret,         \* value returned by the last completed train call
    trainCount,  \* number of train calls made on this object
    hist,        \* per iteration of the current call: pair, freq, idx, ids before/after
    prev,        \* text, vocab, merges and ret of the previous completed train call
    m_ids,       \* _merge called directly: argument ids
    m_pair,      \* argument pair
    m_idx,       \* argument idx
    m_out,       \* returned list
    m_pc,        \* "call" before, "done" after the direct call
    s_ids,       \* _get_stats called directly: argument ids
    s_out,       \* returned Counter, items in insertion order
    s_pc         \* "call" before, "done" after the direct call

vars == <<vocab_size, merges, vocab, pc, text, ids, i, ret, trainCount, hist, prev,
          m_ids, m_pair, m_idx, m_out, m_pc, s_ids, s_out, s_pc>>

tokVars == <<vocab_size, merges, vocab, pc, text, ids, i, ret, trainCount, hist, prev>>
mergeVars == <<m_ids, m_pair, m_idx, m_out, m_pc>>
statsVars == <<s_ids, s_out, s_pc>>

----------------------------------------------------------------------------
(* Bounds of the model *)

MaxTextLen == 2     \* longest generated training text, in characters
MaxTrains == 2      \* train calls per tokenizer object
MaxLen == 4         \* longest list handed to _merge directly
MaxStatsLen == 4    \* longest list handed to _get_stats directly

(* Program constant: the size of the byte alphabet, range(256) / 256 + i *)
BaseSize == 256

(* Inputs *)
Alphabet == {97, 233}                 \* 'a' (one UTF-8 byte), U+00E9 (two bytes)
ClassicText == <<97, 97, 97, 98, 100, 97, 97, 97, 98, 97, 99>>   \* "aaabdaaabac"
VocabSizes == {255, 257, 259, 300}

SeqsUpTo(S, n) == UNION {[1..k -> S] : k \in 0..n}

Texts == SeqsUpTo(Alphabet, MaxTextLen) \cup {ClassicText}

----------------------------------------------------------------------------
(* text.encode("utf-8"), line 30 *)

Utf8(cp) ==
    IF cp < 128 THEN <<cp>>
    ELSE IF cp < 2048 THEN <<192 + (cp \div 64), 128 + (cp % 64)>>
    ELSE IF cp < 65536
         THEN <<224 + (cp \div 4096), 128 + ((cp \div 64) % 64), 128 + (cp % 64)>>
         ELSE <<240 + (cp \div 262144), 128 + ((cp \div 4096) % 64),
                128 + ((cp \div 64) % 64), 128 + (cp % 64)>>

RECURSIVE ToIds(_)
ToIds(t) == IF t = <<>> THEN <<>> ELSE Utf8(Head(t)) \o ToIds(Tail(t))

(* {i: bytes([i]) for i in range(256)}, line 31 *)
BaseVocabShort == [b \in 0..(BaseSize - 2) |-> <<b>>]
BaseVocab == [b \in 0..(BaseSize - 1) |-> <<b>>]

----------------------------------------------------------------------------
(* _get_stats, lines 13-14: Counter(zip(ids, ids[1:])).  A Counter is a    *)
(* dict: its items are kept in the order the keys were first inserted.     *)

KeyIndex(d, k) ==
    IF \E j \in 1..Len(d) : d[j].pair = k
    THEN CHOOSE j \in 1..Len(d) : d[j].pair = k
    ELSE 0

Increment(c, p) ==
    LET j == KeyIndex(c, p)
    IN  IF j = 0 THEN Append(c, [pair |-> p, count |-> 1])
        ELSE [c EXCEPT ![j].count = @ + 1]

RECURSIVE CountFromSkip(_, _, _)
CountFromSkip(s, k, c) ==
    IF k >= Len(s) THEN c
    ELSE CountFromSkip(s, k + 2, Increment(c, <<s[k], s[k + 1]>>))

RECURSIVE CountFrom(_, _, _)
CountFrom(s, k, c) ==
    IF k >= Len(s) THEN c
    ELSE CountFrom(s, k + 1, Increment(c, <<s[k], s[k + 1]>>))

GetStats(s) == CountFrom(s, 1, <<>>)

(* max(stats.items(), key=lambda x: x[1]), line 38: the first item, in     *)
(* iteration order, whose count is not exceeded by any other.              *)
PairLess(p, q) == p[1] < q[1] \/ (p[1] = q[1] /\ p[2] < q[2])

MaxItemLex(stats) ==
    LET top == {j \in 1..Len(stats) : \A k \in 1..Len(stats) : stats[k].count <= stats[j].count}
    IN  stats[CHOOSE j \in top : \A k \in top : k = j \/ PairLess(stats[j].pair, stats[k].pair)]

MinItem(stats) ==
    LET low == {j \in 1..Len(stats) : \A k \in 1..Len(stats) : stats[j].count <= stats[k].count}
    IN  stats[CHOOSE j \in low : \A k \in low : j <= k]

MaxItem(stats) ==
    LET top == {j \in 1..Len(stats) : \A k \in 1..Len(stats) : stats[k].count <= stats[j].count}
    IN  stats[CHOOSE j \in top : \A k \in top : j <= k]

----------------------------------------------------------------------------
(* _merge, lines 16-27.  k is the 1-based position of the code's i. *)

RECURSIVE MergeLoopOverlap(_, _, _, _, _)
MergeLoopOverlap(s, pair, idx, k, newids) ==
    IF k > Len(s) THEN newids
    ELSE IF k < Len(s) /\ <<s[k], s[k + 1]>> = pair
         THEN MergeLoopOverlap(s, pair, idx, k + 1, Append(newids, idx))
         ELSE MergeLoopOverlap(s, pair, idx, k + 1, Append(newids, s[k]))

RECURSIVE MergeLoop(_, _, _, _, _)
MergeLoop(s, pair, idx, k, newids) ==
    IF k > Len(s) THEN newids
    ELSE IF k < Len(s) /\ <<s[k], s[k + 1]>> = pair
         THEN MergeLoop(s, pair, idx, k + 2, Append(newids, idx))
         ELSE MergeLoop(s, pair, idx, k + 1, Append(newids, s[k]))

Merge(s, pair, idx) == MergeLoop(s, pair, idx, 1, <<>>)

----------------------------------------------------------------------------
(* The body of train's loop, lines 35-43, on a record of the values it     *)
(* reads and writes: ids, merges, vocab and the loop variable i.           *)

(* self.merges[pair] = idx, line 42: an existing key keeps its position *)
DictSet(d, k, v) ==
    LET j == KeyIndex(d, k)
    IN  IF j = 0 THEN Append(d, [pair |-> k, idx |-> v])
        ELSE [d EXCEPT ![j].idx = v]

(* self.vocab[idx] = ..., line 43 *)
VocabSet(v, k, b) == [x \in DOMAIN v \cup {k} |-> IF x = k THEN b ELSE v[x]]

(* num_merges, line 32 *)
NumMergesOneMore(T) == T - BaseSize + 1
NumMerges(T) == T - BaseSize

(* idx = 256 + i, line 40 *)
NewIdByTableSize(s) == BaseSize + Len(s.merges)
NewIdFixed(s) == BaseSize
NewId(s) == BaseSize + s.i

(* for i in range(num_merges) ... if not stats: break, lines 34-37 *)
InRange(s, n) == s.i < n
StatsEmpty(s) == GetStats(s.ids) = <<>>

(* self.vocab[pair[0]] + self.vocab[pair[1]], line 43 *)
JoinedSwapped(v, pair) == v[pair[2]] \o v[pair[1]]
Joined(v, pair) == v[pair[1]] \o v[pair[2]]

Body(s) ==
    LET stats == GetStats(s.ids)
        item == MaxItem(stats)
        pair == item.pair
        idx == NewId(s)
    IN  [ids |-> Merge(s.ids, pair, idx),
         merges |-> DictSet(s.merges, pair, idx),
         vocab |-> VocabSet(s.vocab, idx, Joined(s.vocab, pair)),
         i |-> s.i + 1]

RECURSIVE RunLoop(_, _)
RunLoop(s, n) ==
    IF InRange(s, n) /\ ~StatsEmpty(s) THEN RunLoop(Body(s), n) ELSE s

(* __init__ followed by one train call, lines 8-11 and 29-48 *)
FreshTrain(T, t) ==
    RunLoop([ids |-> ToIds(t), merges |-> <<>>, vocab |-> BaseVocab, i |-> 0],
            NumMerges(T))

----------------------------------------------------------------------------
(* The tokenizer object *)

NoPrev == [valid |-> FALSE, text |-> <<>>, vocab |-> <<>>, merges |-> <<>>, ret |-> <<>>]

Cur == [ids |-> ids, merges |-> merges, vocab |-> vocab, i |-> i]

(* __init__, lines 8-11 *)
InitTok ==
    /\ vocab_size \in VocabSizes
    /\ merges = <<>>
    /\ vocab = <<>>
    /\ pc = "init"
    /\ text = <<>>
    /\ ids = <<>>
    /\ i = 0
    /\ ret = <<>>
    /\ trainCount = 0
    /\ hist = <<>>
    /\ prev = NoPrev

MergeIdle ==
    /\ m_ids = <<>>
    /\ m_pair = <<0, 0>>
    /\ m_idx = BaseSize
    /\ m_out = <<>>
    /\ m_pc = "idle"

StatsIdle ==
    /\ s_ids = <<>>
    /\ s_out = <<>>
    /\ s_pc = "idle"

Init == InitTok /\ MergeIdle /\ StatsIdle

(* train, lines 30-32 *)
TrainCall(t) ==
    /\ pc \in {"init", "done"}
    /\ trainCount < MaxTrains
    /\ text' = t
    /\ ids' = ToIds(t)
    /\ vocab' = BaseVocab
    /\ i' = 0
    /\ pc' = "loop"
    /\ trainCount' = trainCount + 1
    /\ hist' = <<>>
    /\ prev' = IF pc = "done"
               THEN [valid |-> TRUE, text |-> text, vocab |-> vocab,
                     merges |-> merges, ret |-> ret]
               ELSE prev
    /\ UNCHANGED <<vocab_size, merges, ret>>

(* train, lines 35-43: one iteration that merges *)
TrainIter ==
    /\ pc = "loop"
    /\ InRange(Cur, NumMerges(vocab_size))
    /\ ~StatsEmpty(Cur)
    /\ LET item == MaxItem(GetStats(ids))
           nxt == Body(Cur)
       IN  /\ ids' = nxt.ids
           /\ merges' = nxt.merges
           /\ vocab' = nxt.vocab
           /\ i' = nxt.i
           /\ hist' = Append(hist, [pair |-> item.pair, freq |-> item.count,
                                    idx |-> NewId(Cur), before |-> ids,
                                    after |-> nxt.ids])
    /\ UNCHANGED <<vocab_size, pc, text, ret, trainCount, prev>>

(* train, lines 36-37 and 48: no pair left *)
TrainBreak ==
    /\ pc = "loop"
    /\ InRange(Cur, NumMerges(vocab_size))
    /\ StatsEmpty(Cur)
    /\ pc' = "done"
    /\ ret' = ids
    /\ UNCHANGED <<vocab_size, merges, vocab, text, ids, i, trainCount, hist, prev>>

(* train, lines 34 and 48: range exhausted *)
TrainReturn ==
    /\ pc = "loop"
    /\ ~InRange(Cur, NumMerges(vocab_size))
    /\ pc' = "done"
    /\ ret' = ids
    /\ UNCHANGED <<vocab_size, merges, vocab, text, ids, i, trainCount, hist, prev>>

Next ==
    \/ (\E t \in Texts : TrainCall(t)) /\ UNCHANGED <<mergeVars, statsVars>>
    \/ TrainIter /\ UNCHANGED <<mergeVars, statsVars>>
    \/ TrainBreak /\ UNCHANGED <<mergeVars, statsVars>>
    \/ TrainReturn /\ UNCHANGED <<mergeVars, statsVars>>

Spec == Init /\ [][Next]_vars

----------------------------------------------------------------------------
(* _merge called on its own *)

MergeSymbols == {97, 98, 256}
MergeIdxs == {256, 257}

InitMerge ==
    /\ vocab_size = 259
    /\ merges = <<>>
    /\ vocab = <<>>
    /\ pc = "init"
    /\ text = <<>>
    /\ ids = <<>>
    /\ i = 0
    /\ ret = <<>>
    /\ trainCount = 0
    /\ hist = <<>>
    /\ prev = NoPrev
    /\ m_ids \in SeqsUpTo(MergeSymbols, MaxLen)
    /\ m_pair \in MergeSymbols \X MergeSymbols
    /\ m_idx \in MergeIdxs
    /\ m_out = <<>>
    /\ m_pc = "call"
    /\ StatsIdle

CallMerge ==
    /\ m_pc = "call"
    /\ m_out' = Merge(m_ids, m_pair, m_idx)
    /\ m_pc' = "done"
    /\ UNCHANGED <<m_ids, m_pair, m_idx>>
    /\ UNCHANGED <<tokVars, statsVars>>

NextMerge == CallMerge

MergeSpec == InitMerge /\ [][NextMerge]_vars

----------------------------------------------------------------------------
(* _get_stats called on its own *)

StatsSymbols == {97, 98, 256}

InitStats ==
    /\ vocab_size = 259
    /\ merges = <<>>
    /\ vocab = <<>>
    /\ pc = "init"
    /\ text = <<>>
    /\ ids = <<>>
    /\ i = 0
    /\ ret = <<>>
    /\ trainCount = 0
    /\ hist = <<>>
    /\ prev = NoPrev
    /\ MergeIdle
    /\ s_ids \in SeqsUpTo(StatsSymbols, MaxStatsLen)
    /\ s_out = <<>>
    /\ s_pc = "call"

CallStats ==
    /\ s_pc = "call"
    /\ s_out' = GetStats(s_ids)
    /\ s_pc' = "done"
    /\ UNCHANGED s_ids
    /\ UNCHANGED <<tokVars, mergeVars>>

NextStats == CallStats

StatsSpec == InitStats /\ [][NextStats]_vars

----------------------------------------------------------------------------
(* Vocabulary of the properties: occurrences of a pair in a sequence,      *)
(* counted position by position and independently of GetStats.             *)

Positions(p, s) == {k \in 1..(Len(s) - 1) : s[k] = p[1] /\ s[k + 1] = p[2]}
Occ(p, s) == Cardinality(Positions(p, s))
AdjPairs(s) == {<<s[k], s[k + 1]>> : k \in 1..(Len(s) - 1)}
FirstPos(p, s) == CHOOSE k \in Positions(p, s) : \A j \in Positions(p, s) : k <= j
IsMostFrequent(p, s) == p \in AdjPairs(s) /\ \A q \in AdjPairs(s) : Occ(q, s) <= Occ(p, s)
Tied(p, s) == {q \in AdjPairs(s) : Occ(q, s) = Occ(p, s)}
Done == pc = "done"
ClassicRun == text = ClassicText /\ vocab_size = 259

----------------------------------------------------------------------------
C2_RetrainEqualsFresh ==
    (Done /\ trainCount >= 2) =>
        /\ vocab = FreshTrain(vocab_size, text).vocab
        /\ merges = FreshTrain(vocab_size, text).merges

(* C3 as stated: after any sequence of train calls with vocab_size T >=    *)
(* 256, the merge table has at most T - 256 rules, and exactly T - 256     *)
(* unless the sequence collapsed to length <= 1.                           *)
C3_MergeCountBound ==
    (Done /\ vocab_size >= BaseSize) =>
        /\ Len(merges) <= vocab_size - BaseSize
        /\ (Len(merges) = vocab_size - BaseSize \/ Len(ret) <= 1)

(* C4 as stated: after any sequence of train calls, the ids of the merge   *)
(* table in stored order are 256, 257, ...: the k-th rule has id 256 + k   *)
(* (k from 0) and no id is repeated.                                       *)
C4_MonotonicIds ==
    Done => \A k \in 1..Len(merges) : merges[k].idx = BaseSize + (k - 1)

(* C5 as stated: after any sequence of train calls, every rule             *)
(* (left, right) -> id of the merge table has id in the vocabulary with    *)
(* vocab[id] = vocab[left] ++ vocab[right].                                *)
C5_VocabOfRule ==
    Done => \A k \in 1..Len(merges) :
        /\ merges[k].idx \in DOMAIN vocab
        /\ merges[k].pair[1] \in DOMAIN vocab
        /\ merges[k].pair[2] \in DOMAIN vocab
        /\ vocab[merges[k].idx] = vocab[merges[k].pair[1]] \o vocab[merges[k].pair[2]]

(* C6 as stated: from construction on, in every state, vocab[id] = [id]    *)
(* for every id in 0..255.                                                 *)
C6_BaseEntriesFromConstruction ==
    \A b \in 0..(BaseSize - 1) : b \in DOMAIN vocab /\ vocab[b] = <<b>>

(* C6 amended: the constructor leaves the vocabulary empty; from the first *)
(* statement of the first train call on, in every state, vocab[id] = [id]  *)
(* for every id in 0..255.                                                 *)
C6_BaseEntriesFromFirstTrain ==
    IF pc = "init"
    THEN DOMAIN vocab = {}
    ELSE \A b \in 0..(BaseSize - 1) : b \in DOMAIN vocab /\ vocab[b] = <<b>>

(* C6 witness: a second train call has completed after merges were made.   *)
C6_RetrainedWithMerges == Done /\ trainCount >= 2 /\ Len(hist) >= 1 /\ 256 \in DOMAIN vocab

(* C7 as stated: no tokenizer exists, and so train never runs, with a      *)
(* target vocabulary size below 256.                                       *)
C7_SmallTargetRejected == vocab_size >= BaseSize

(* C8: a train call on a fresh tokenizer ends in the vocab, merges and     *)
(* returned sequence that text and vocab_size determine, and a train call  *)
(* that repeats the text of the call before it on the same tokenizer ends  *)
(* in the same vocab, merges and returned sequence as that call.           *)
C8_Deterministic ==
    Done =>
        /\ trainCount = 1 =>
              /\ vocab = FreshTrain(vocab_size, text).vocab
              /\ merges = FreshTrain(vocab_size, text).merges
              /\ ret = FreshTrain(vocab_size, text).ids
        /\ (prev.valid /\ prev.text = text) =>
              /\ vocab = prev.vocab
              /\ merges = prev.merges
              /\ ret = prev.ret

(* C8 witness: the same text trained twice in a row, with merges made.     *)
C8_SameTextTwice == Done /\ prev.valid /\ prev.text = text /\ Len(hist) >= 2

----------------------------------------------------------------------------
(* Left-to-right greedy non-overlapping substitution, on the suffix.       *)
RECURSIVE Greedy(_, _, _)
Greedy(s, pair, idx) ==
    IF s = <<>> THEN <<>>
    ELSE IF Len(s) >= 2 /\ s[1] = pair[1] /\ s[2] = pair[2]
         THEN <<idx>> \o Greedy(SubSeq(s, 3, Len(s)), pair, idx)
         ELSE <<s[1]>> \o Greedy(Tail(s), pair, idx)

RunOf(a, n) == [k \in 1..n |-> a]

(* C9: _merge(ids, pair, idx) is the left-to-right greedy non-overlapping  *)
(* substitution; a run of n copies of a with pair (a,a) becomes n div 2    *)
(* copies of idx followed by n mod 2 copies of a; [97,97,97] with pair     *)
(* (97,97) gives [idx, 97].                                                *)
C9_MergeGreedy ==
    m_pc = "done" =>
        /\ m_out = Greedy(m_ids, m_pair, m_idx)
        /\ (m_pair[1] = m_pair[2] /\ m_ids = RunOf(m_pair[1], Len(m_ids))) =>
              m_out = RunOf(m_idx, Len(m_ids) \div 2) \o RunOf(m_pair[1], Len(m_ids) % 2)
        /\ (m_ids = <<97, 97, 97>> /\ m_pair = <<97, 97>>) => m_out = <<m_idx, 97>>

(* C9 witness: _merge has returned for [97,97,97] and pair (97,97).        *)
C9_TripleMerged == m_pc = "done" /\ m_ids = <<97, 97, 97>> /\ m_pair = <<97, 97>>

(* C10: a fresh tokenizer with vocab_size 259 trained on "aaabdaaabac"     *)
(* performs exactly 3 merges creating 256, 257, 258; the first merges      *)
(* (97,97), whose count 4 is the unique maximum, into 256 and produces     *)
(* [256,97,98,100,256,97,98,97,99]; the returned sequence has 5 symbols.   *)
C10_ClassicScenario ==
    (Done /\ trainCount = 1 /\ ClassicRun) =>
        /\ Len(hist) = 3
        /\ \A n \in 1..3 : hist[n].idx = 255 + n
        /\ hist[1].pair = <<97, 97>>
        /\ hist[1].freq = 4
        /\ Occ(<<97, 97>>, hist[1].before) = 4
        /\ \A q \in AdjPairs(hist[1].before) : q = <<97, 97>> \/ Occ(q, hist[1].before) < 4
        /\ hist[1].after = <<256, 97, 98, 100, 256, 97, 98, 97, 99>>
        /\ Len(ret) = 5

(* C10 witness: the classic run on a fresh tokenizer has returned.         *)
C10_ClassicDone == Done /\ trainCount = 1 /\ ClassicRun /\ Len(ret) = 5

----------------------------------------------------------------------------
(* C11 as stated: train on the empty text with vocab_size 300 returns the  *)
(* empty sequence and leaves zero merge rules and exactly the 256 base     *)
(* vocabulary entries, whatever the state of the tokenizer was before.     *)
C11_EmptyCorpus ==
    (Done /\ vocab_size = 300 /\ text = <<>>) =>
        /\ ret = <<>>
        /\ merges = <<>>
        /\ vocab = BaseVocab

----------------------------------------------------------------------------
(* encode and decode as the specification defines them (sections 4.1 and   *)
(* 4.6): encode replays the rules of the merge table in recorded order     *)
(* with _merge; decode concatenates vocab[id], and fails on an id that is  *)
(* no key of the vocabulary.                                               *)

MaxBytesLen == 3    \* longest byte sequence encoded and decoded
SampleBytes == {97, 169, 195}
ByteSeqs == SeqsUpTo(SampleBytes, MaxBytesLen)

RECURSIVE Replay(_, _, _)
Replay(s, mt, k) ==
    IF k > Len(mt) THEN s
    ELSE Replay(Merge(s, mt[k].pair, mt[k].idx), mt, k + 1)

Encode(b, mt) == Replay(b, mt, 1)

RECURSIVE Concat(_, _)
Concat(s, v) == IF s = <<>> THEN <<>> ELSE v[Head(s)] \o Concat(Tail(s), v)

Decode(s, v) ==
    IF \A k \in 1..Len(s) : s[k] \in DOMAIN v
    THEN [ok |-> TRUE, bytes |-> Concat(s, v)]
    ELSE [ok |-> FALSE, bytes |-> <<>>]

(* C12 as stated: for every trained tokenizer and every byte sequence b,   *)
(* decoding the encoding of b succeeds and returns exactly b.              *)
C12_RoundTrip ==
    Done => \A b \in ByteSeqs :
        Decode(Encode(b, merges), vocab) = [ok |-> TRUE, bytes |-> b]

----------------------------------------------------------------------------
(* A step of train that completes a merging iteration, and the record of   *)
(* that iteration.                                                         *)
Merged == Len(hist') = Len(hist) + 1
Latest == hist'[Len(hist')]
HasKey(d, p) == \E j \in 1..Len(d) : d[j].pair = p
Budget == vocab_size - BaseSize
TextBytes == Len(ToIds(text))

(* C13 as stated: every completed merge iteration of train adds exactly    *)
(* one entry to the vocabulary and exactly one rule to the merge table;    *)
(* after train on a fresh tokenizer len(vocab) = 256 + len(merges), and    *)
(* len(merges) is the number of iterations that merged.                    *)
C13_OneEntryPerIteration ==
    /\ [][Merged =>
            /\ Cardinality(DOMAIN vocab') = Cardinality(DOMAIN vocab) + 1
            /\ Len(merges') = Len(merges) + 1]_vars
    /\ []((Done /\ trainCount = 1) =>
            /\ Cardinality(DOMAIN vocab) = BaseSize + Len(merges)
            /\ Len(merges) = Len(hist))

(* C14: in the step in which train records a rule (left, right) -> newId,  *)
(* left and right are keys of the vocabulary before the step and are both  *)
(* strictly smaller than newId, and the rule is in the merge table after.  *)
C14_NoForwardReference ==
    [][Merged =>
        /\ Latest.pair[1] \in DOMAIN vocab
        /\ Latest.pair[2] \in DOMAIN vocab
        /\ Latest.pair[1] < Latest.idx
        /\ Latest.pair[2] < Latest.idx
        /\ \E j \in 1..Len(merges') :
              merges'[j] = [pair |-> Latest.pair, idx |-> Latest.idx]]_vars

(* C14 witness: a rule whose left side is itself a merge-created id was    *)
(* recorded.                                                               *)
C14_RuleOverMergedId ==
    \E n \in 1..Len(hist) : hist[n].pair[1] >= BaseSize /\ HasKey(merges, hist[n].pair)

SumCounts(c) == LET RECURSIVE Sum(_)
                    Sum(k) == IF k = 0 THEN 0 ELSE c[k].count + Sum(k - 1)
                IN  Sum(Len(c))

(* C15: _get_stats(ids) has exactly the adjacent pairs of ids as keys,     *)
(* each once, and maps each to the number of positions where it occurs,    *)
(* overlapping occurrences included: no count is 0, the counts sum to      *)
(* len(ids) - 1 when len(ids) >= 2, and the mapping is empty when          *)
(* len(ids) < 2; (97,97) counts 2 in [97,97,97].                           *)
C15_StatsCountsOccurrences ==
    s_pc = "done" =>
        /\ \A j \in 1..Len(s_out) :
              /\ s_out[j].count = Occ(s_out[j].pair, s_ids)
              /\ s_out[j].count >= 1
              /\ \A k \in 1..Len(s_out) : k = j \/ s_out[k].pair # s_out[j].pair
        /\ {s_out[j].pair : j \in 1..Len(s_out)} = AdjPairs(s_ids)
        /\ Len(s_ids) >= 2 => SumCounts(s_out) = Len(s_ids) - 1
        /\ Len(s_ids) < 2 => s_out = <<>>
        /\ s_ids = <<97, 97, 97>> => s_out = <<[pair |-> <<97, 97>>, count |-> 2]>>

(* C15 witness: _get_stats has returned for [97,97,97], where the two      *)
(* occurrences of (97,97) overlap.                                         *)
C15_OverlapCounted == s_pc = "done" /\ s_ids = <<97, 97, 97>> /\ Len(s_out) = 1

(* C16: in every iteration of train that merges, the merged pair occurs    *)
(* adjacently in the sequence at the start of the iteration and no         *)
(* adjacent pair of that sequence has a larger count; while the budget is  *)
(* not used up, train returns in its next step exactly when the sequence   *)
(* has no adjacent pair, and a call that ended below its budget returned   *)
(* a sequence without adjacent pairs.                                      *)
C16_MaxPairOrStop ==
    /\ [](\A n \in 1..Len(hist) : IsMostFrequent(hist[n].pair, hist[n].before))
    /\ []((Done /\ i < Budget) => AdjPairs(ret) = {})
    /\ [][(pc = "loop" /\ i < Budget) => ((pc' = "done") <=> (AdjPairs(ids) = {}))]_vars

(* C16 witness: a call merged a pair that was not the only candidate and   *)
(* then stopped early.                                                     *)
C16_MergedThenStoppedEarly ==
    /\ Done
    /\ i < Budget
    /\ Len(hist) >= 1
    /\ Cardinality(AdjPairs(hist[1].before)) >= 2

(* C17: at the end of every iteration of train, and for the returned       *)
(* sequence, every id of the sequence is a key of the vocabulary and the   *)
(* concatenation of vocab[id] over the sequence is the UTF-8 encoding of   *)
(* the training text (bytes 195, 169 for U+00E9).                          *)
C17_SequenceSpellsText ==
    /\ pc \in {"loop", "done"} =>
          /\ \A k \in 1..Len(ids) : ids[k] \in DOMAIN vocab
          /\ Concat(ids, vocab) = ToIds(text)
    /\ Done =>
          /\ \A k \in 1..Len(ret) : ret[k] \in DOMAIN vocab
          /\ Concat(ret, vocab) = ToIds(text)
          /\ text = <<233>> => Concat(ret, vocab) = <<195, 169>>

(* C17 witness: a call on a text with a two-byte character returned after  *)
(* two merges.                                                             *)
C17_TwoByteTextMerged ==
    Done /\ Len(hist) >= 2 /\ (\E k \in 1..Len(text) : text[k] = 233) /\ Len(ret) < TextBytes

(* C18 as stated: after the merge pass of an iteration the merged pair no  *)
(* longer occurs adjacently in the sequence; within one train call no pair *)
(* is selected twice, and no existing key of the merges dictionary is      *)
(* overwritten.                                                            *)
C18_PairGoneNoOverwrite ==
    /\ [](\A n \in 1..Len(hist) :
            /\ Occ(hist[n].pair, hist[n].after) = 0
            /\ \A k \in 1..Len(hist) : k = n \/ hist[k].pair # hist[n].pair)
    /\ [][Merged => ~HasKey(merges, Latest.pair)]_vars

(* C19: every merging iteration of train shortens the sequence by at least *)
(* one symbol and never to length 0; at every point of a call on a text of *)
(* n >= 1 bytes the number m of merges made so far is at most n - 1 and    *)
(* the sequence has between 1 and n - m symbols, so the loop cannot go on  *)
(* merging for ever; the returned sequence has between 1 and n - m         *)
(* symbols.                                                                *)
C19_ShrinksAndTerminates ==
    /\ \A n \in 1..Len(hist) :
          /\ Len(hist[n].after) >= 1
          /\ Len(hist[n].after) <= Len(hist[n].before) - 1
    /\ (pc \in {"loop", "done"} /\ TextBytes >= 1) =>
          /\ i = Len(hist)
          /\ Len(hist) <= TextBytes - 1
          /\ Len(ids) >= 1
          /\ Len(ids) <= TextBytes - Len(hist)
    /\ (Done /\ TextBytes >= 1) =>
          /\ Len(ret) >= 1
          /\ Len(ret) <= TextBytes - Len(hist)

(* C19 witness: a call with budget to spare merged n - 1 times, down to a  *)
(* single symbol.                                                          *)
C19_CollapsedToOne ==
    Done /\ i < Budget /\ Len(hist) >= 2 /\ Len(hist) = TextBytes - 1 /\ Len(ret) = 1

====
